---- MODULE Spec2Model ----
(***************************************************************************)
(* Model of the user-data container box of mp4-rust (src/mp4box/udta.rs):  *)
(* UdtaBox::get_size, UdtaBox::read_box and UdtaBox::write_box, run over a *)
(* byte-addressed stream with a cursor.  The header codec, the stream      *)
(* helpers and the nested meta reader/writer live outside udta.rs and are  *)
(* modelled from the specification.                                        *)
(***************************************************************************)
EXTENDS Integers, Sequences, FiniteSets, TLC

\* ---------------------------------------------------------------- bounds
MaxChunks == 2      \* child boxes laid out in an input stream
MaxPayload == 1     \* payload bytes physically present after a child header
MaxRounds == 3      \* write-then-read cycles the caller performs
BigSize == 64       \* a declared child size larger than any container here

\* ------------------------------------------------------------- constants
HEADER_SIZE == 8

META == <<109, 101, 116, 97>>       \* "meta"
UDTA == <<117, 100, 116, 97>>       \* "udta"
FREE == <<102, 114, 101, 101>>      \* "free"  (not modelled by the schema)
NAME == <<110, 97, 109, 101>>       \* "name"  (not modelled by the schema)

None == <<>>
Some(v) == <<v>>

\* ---------------------------------------------------------- header codec
\* big-endian u32
U32Bytes(n) ==
    << (n \div 16777216) % 256, (n \div 65536) % 256, (n \div 256) % 256, n % 256 >>

U32Value(b) == ((b[1] * 256 + b[2]) * 256 + b[3]) * 256 + b[4]

\* BoxHeader::new(name, size).write(writer): 4-byte size, then the 4-byte tag
BoxHeaderWrite(name, sz) == U32Bytes(sz) \o name

\* BoxHeader::read at 0-based cursor p (the 8 bytes are known to be there)
BoxHeaderRead(b, p) ==
    [name |-> SubSeq(b, p + 5, p + 8), size |-> U32Value(SubSeq(b, p + 1, p + 4))]

\* BoxType -> String for UserDefinedBox.name: the four characters of the tag
BoxTypeToString(tag) == tag

\* ------------------------------------------------------------ nested meta
\* A MetaBox value is the content it was decoded from.
MetaDefault == [payload |-> <<>>]

MetaBoxSize(m) == HEADER_SIZE + Len(m.payload)

MetaWrite(m) == BoxHeaderWrite(META, MetaBoxSize(m)) \o m.payload

\* MetaBox::read_box(reader, s) with the cursor at p, just after the child's
\* header.  It follows the container pattern: it ends by repositioning the
\* cursor to (child start + s).  A declared size below the header size leaves
\* no content to decode; the decoder either rejects it or returns a default
\* value.  The result is the set of outcomes.
MetaReadBox(b, p, s) ==
    IF s < HEADER_SIZE
    THEN { [ok |-> TRUE, meta |-> MetaDefault, pos |-> (p - HEADER_SIZE) + s, err |-> ""],
           [ok |-> FALSE, meta |-> MetaDefault, pos |-> p, err |-> "Meta"] }
    ELSE IF p + (s - HEADER_SIZE) > Len(b)
    THEN { [ok |-> FALSE, meta |-> MetaDefault, pos |-> Len(b), err |-> "Io"] }
    ELSE { [ok |-> TRUE, meta |-> [payload |-> SubSeq(b, p + 1, p + s - HEADER_SIZE)],
            pos |-> (p - HEADER_SIZE) + s, err |-> ""] }

\* ------------------------------------------------------------------ udta
RECURSIVE ChildrenSize(_)
ChildrenSize(cs) == IF cs = <<>> THEN 0 ELSE Head(cs).size + ChildrenSize(Tail(cs))

RECURSIVE ChildrenBytes(_)
ChildrenBytes(cs) ==
    IF cs = <<>> THEN <<>>
    ELSE BoxHeaderWrite(Head(cs).name, Head(cs).size) \o Head(cs).data
           \o ChildrenBytes(Tail(cs))

\* variant: the opaque children are counted into the size
get_size_WithChildren(b) ==
    HEADER_SIZE + (IF b.meta # None THEN MetaBoxSize(b.meta[1]) ELSE 0)
      + ChildrenSize(b.children)

\* UdtaBox::get_size
get_size(b) ==
    HEADER_SIZE + (IF b.meta # None THEN MetaBoxSize(b.meta[1]) ELSE 0)

\* variant: the header is written but the meta sub-box is not
write_box_NoMeta(b) ==
    [bytes |-> BoxHeaderWrite(UDTA, get_size(b)), ret |-> get_size(b)]

\* variant: the opaque children are replayed after the meta sub-box
write_box_EmitsChildren(b) ==
    [bytes |-> BoxHeaderWrite(UDTA, get_size(b))
                 \o (IF b.meta # None THEN MetaWrite(b.meta[1]) ELSE <<>>)
                 \o ChildrenBytes(b.children),
     ret   |-> get_size(b)]

\* UdtaBox::write_box: the bytes appended to the writer and the returned size
write_box(b) ==
    [bytes |-> BoxHeaderWrite(UDTA, get_size(b))
                 \o (IF b.meta # None THEN MetaWrite(b.meta[1]) ELSE <<>>),
     ret   |-> get_size(b)]

\* ---------------------------------------------------------------- inputs
ChildTags == {META, FREE, NAME}

\* payload bytes of the i-th chunk: distinct per chunk and per position
Payload(i, n) == [k \in 1..n |-> 10 * i + k]

\* a declared size below the header size: 0, 7, 6, ...
TinySize(n) == IF n = 0 THEN 0 ELSE HEADER_SIZE - n

\* declared sizes tried for a child with tag t that carries n payload bytes:
\* too small, understated, exact, overstated, larger than the container
ChildSizes(t, n) ==
    IF t = NAME THEN {HEADER_SIZE + n}
    ELSE {TinySize(n), HEADER_SIZE, HEADER_SIZE + n, HEADER_SIZE + n + 1, BigSize}

ChunkSet(i) ==
    UNION { { BoxHeaderWrite(t, s) \o Payload(i, n) : s \in ChildSizes(t, n) } :
              t \in ChildTags, n \in 0..MaxPayload }

RECURSIVE BodiesOf(_)
BodiesOf(k) ==
    IF k = 0 THEN {<<>>}
    ELSE { p \o c : p \in BodiesOf(k - 1), c \in ChunkSet(k) }

Bodies == UNION { BodiesOf(k) : k \in 0..MaxChunks }

\* declared sizes tried for the container read from a stream of length l
DeclSizes(l) == {0, HEADER_SIZE, HEADER_SIZE + 1, l - 1, l, l + 1}

RECURSIVE KidsOf(_)
KidsOf(k) ==
    IF k = 0 THEN {<<>>}
    ELSE { Append(p, [name |-> BoxTypeToString(t), size |-> HEADER_SIZE + n,
                      data |-> Payload(k, n)]) :
             p \in KidsOf(k - 1), t \in {FREE, NAME}, n \in 0..MaxPayload }

ChildLists == UNION { KidsOf(k) : k \in 0..MaxChunks }

MetaSlots == {None} \cup { Some([payload |-> Payload(0, n)]) : n \in 0..MaxPayload + 1 }

SrcBoxes == [meta : MetaSlots, children : ChildLists]

EmptyBox == [meta |-> None, children |-> <<>>]

\* ----------------------------------------------------------------- state
VARIABLES
    buf,        \* the bytes under the reader's cursor
    pos,        \* the stream cursor (0-based)
    faulty,     \* the stream may fail any operation (a generic Read + Seek)
    pc,         \* position in the caller / in read_box
    size,       \* read_box's size argument
    entry,      \* cursor when read_box was entered
    start, current, end,    \* read_box locals
    hname, hs,  \* the child header read last
    hdrs,       \* offsets of the child headers with a non-meta tag read so far
    lastMeta,   \* offset of the meta child header read last, -1 if none
    meta, children,         \* read_box locals
    ret, error, \* read_box's result: Ok(box) or Err(error)
    box,        \* the container the caller writes
    src,        \* the container the caller built itself, if any
    wret,       \* write_box's return value
    chdr,       \* the header the caller read back
    boxes       \* the containers returned by read_box, in order

vars == <<buf, pos, faulty, pc, size, entry, start, current, end, hname, hs, hdrs, lastMeta,
          meta, children, ret, error, box, src, wret, chdr, boxes>>

locals0 ==
    /\ entry = 0 /\ start = 0 /\ current = 0 /\ end = 0
    /\ hname = <<>> /\ hs = 0 /\ hdrs = <<>> /\ lastMeta = -1
    /\ meta = None /\ children = <<>>
    /\ ret = None /\ error = ""
    /\ wret = 0 /\ boxes = <<>>

\* a stream handed to read_box, the caller having consumed the container header
InitParse ==
    /\ \E body \in Bodies :
         \E sz \in DeclSizes(HEADER_SIZE + Len(body)) :
            /\ buf = BoxHeaderWrite(UDTA, sz) \o body
            /\ size = sz
            /\ chdr = [name |-> UDTA, size |-> sz]
    /\ pos = HEADER_SIZE
    /\ faulty \in BOOLEAN
    /\ pc = "start"
    /\ box = EmptyBox
    /\ src = None
    /\ locals0

\* a container built in memory, about to be written (tests, lines 116-151)
InitWrite ==
    /\ \E b \in SrcBoxes : box = b /\ src = Some(b)
    /\ buf = <<>>
    /\ pos = 0
    /\ faulty = FALSE
    /\ pc = "write"
    /\ size = 0
    /\ chdr = [name |-> <<>>, size |-> 0]
    /\ locals0

Init == InitParse \/ InitWrite

\* ------------------------------------------------------------ read_box
callerVars == <<box, src, wret, chdr, boxes>>

\* `?` on a failed step: read_box returns Err at once, holding no container
Fail(e, p) ==
    /\ pc' = "err"
    /\ error' = e
    /\ ret' = None
    /\ pos' = p
    /\ UNCHANGED <<buf, faulty, size, entry, start, current, end, hname, hs, hdrs, lastMeta,
                   meta, children>>
    /\ UNCHANGED callerVars

\* line 60-63: let start = box_start(reader)?; meta = None; children = Vec::new()
BoxStart ==
    /\ pc = "start"
    /\ \/ faulty /\ Fail("Io", pos)
       \/ /\ entry' = pos
          /\ start' = pos - HEADER_SIZE
          /\ meta' = None
          /\ children' = <<>>
          /\ hdrs' = <<>>
          /\ lastMeta' = -1
          /\ ret' = None
          /\ error' = ""
          /\ pc' = "position"
          /\ UNCHANGED <<buf, pos, faulty, size, current, end, hname, hs>>
          /\ UNCHANGED callerVars

\* line 65-66: current = reader.stream_position()?; end = start + size
InitCurrent ==
    /\ pc = "position"
    /\ \/ faulty /\ Fail("Io", pos)
       \/ /\ current' = pos
          /\ end' = start + size
          /\ pc' = "while"
          /\ UNCHANGED <<buf, pos, faulty, size, entry, start, hname, hs, hdrs, lastMeta,
                         meta, children, ret, error>>
          /\ UNCHANGED callerVars

\* variant: the scan goes on while current <= end
WhileTest_LessEqual ==
    /\ pc = "while"
    /\ pc' = IF current <= end THEN "header" ELSE "skip"
    /\ UNCHANGED <<buf, pos, faulty, size, entry, start, current, end, hname, hs, hdrs, lastMeta,
                   meta, children, ret, error>>
    /\ UNCHANGED callerVars

\* line 67: while current < end
WhileTest ==
    /\ pc = "while"
    /\ pc' = IF current < end THEN "header" ELSE "skip"
    /\ UNCHANGED <<buf, pos, faulty, size, entry, start, current, end, hname, hs, hdrs, lastMeta,
                   meta, children, ret, error>>
    /\ UNCHANGED callerVars

\* variant: a short header read ends the scan instead of failing the read
ReadChildHeader_EofEndsLoop ==
    /\ pc = "header"
    /\ \/ faulty /\ Fail("Io", pos)
       \/ /\ pos + HEADER_SIZE > Len(buf)
          /\ pc' = "skip"
          /\ UNCHANGED <<buf, pos, faulty, size, entry, start, current, end, hname, hs,
                         hdrs, lastMeta, meta, children, ret, error>>
          /\ UNCHANGED callerVars
       \/ /\ pos + HEADER_SIZE <= Len(buf)
          /\ LET h == BoxHeaderRead(buf, pos) IN
               /\ hname' = h.name
               /\ hs' = h.size
               /\ hdrs' = IF h.name # META THEN Append(hdrs, pos) ELSE hdrs
               /\ lastMeta' = IF h.name = META THEN pos ELSE lastMeta
          /\ pos' = pos + HEADER_SIZE
          /\ pc' = "check"
          /\ UNCHANGED <<buf, faulty, size, entry, start, current, end,
                         meta, children, ret, error>>
          /\ UNCHANGED callerVars

\* line 69-70: let header = BoxHeader::read(reader)?
ReadChildHeader ==
    /\ pc = "header"
    /\ \/ faulty /\ Fail("Io", pos)
       \/ pos + HEADER_SIZE > Len(buf) /\ Fail("Io", Len(buf))
       \/ /\ pos + HEADER_SIZE <= Len(buf)
          /\ LET h == BoxHeaderRead(buf, pos) IN
               /\ hname' = h.name
               /\ hs' = h.size
               /\ hdrs' = IF h.name # META THEN Append(hdrs, pos) ELSE hdrs
               /\ lastMeta' = IF h.name = META THEN pos ELSE lastMeta
          /\ pos' = pos + HEADER_SIZE
          /\ pc' = "check"
          /\ UNCHANGED <<buf, faulty, size, entry, start, current, end,
                         meta, children, ret, error>>
          /\ UNCHANGED callerVars

\* variant: the check is made against the bytes left before start + size
CheckSize_Remaining ==
    /\ pc = "check"
    /\ \/ (pos - HEADER_SIZE) + hs > end /\ Fail("InvalidData", pos)
       \/ /\ (pos - HEADER_SIZE) + hs <= end
          /\ pc' = "dispatch"
          /\ UNCHANGED <<buf, pos, faulty, size, entry, start, current, end, hname, hs,
                         hdrs, lastMeta, meta, children, ret, error>>
          /\ UNCHANGED callerVars

\* variant: the parent-bound check is missing
CheckSize_NoBound ==
    /\ pc = "check"
    /\ pc' = "dispatch"
    /\ UNCHANGED <<buf, pos, faulty, size, entry, start, current, end, hname, hs,
                   hdrs, lastMeta, meta, children, ret, error>>
    /\ UNCHANGED callerVars

\* line 71-75: if s > size { return Err(Error::InvalidData(..)) }
CheckSize ==
    /\ pc = "check"
    /\ \/ hs > size /\ Fail("InvalidData", pos)
       \/ /\ hs <= size
          /\ pc' = "dispatch"
          /\ UNCHANGED <<buf, pos, faulty, size, entry, start, current, end, hname, hs,
                         hdrs, lastMeta, meta, children, ret, error>>
          /\ UNCHANGED callerVars

\* variant: a meta slot already filled is kept (first occurrence wins)
ReadMeta_FirstWins ==
    /\ pc = "dispatch"
    /\ hname = META
    /\ \/ faulty /\ Fail("Io", pos)
       \/ \E r \in MetaReadBox(buf, pos, hs) :
            \/ ~r.ok /\ Fail(r.err, r.pos)
            \/ /\ r.ok
               /\ meta' = IF meta = None THEN Some(r.meta) ELSE meta
               /\ pos' = r.pos
               /\ pc' = "current"
               /\ UNCHANGED <<buf, faulty, size, entry, start, current, end, hname, hs,
                              hdrs, lastMeta, children, ret, error>>
               /\ UNCHANGED callerVars

\* line 78-80: BoxType::MetaBox => meta = Some(MetaBox::read_box(reader, s)?)
ReadMeta ==
    /\ pc = "dispatch"
    /\ hname = META
    /\ \/ faulty /\ Fail("Io", pos)
       \/ \E r \in MetaReadBox(buf, pos, hs) :
            \/ ~r.ok /\ Fail(r.err, r.pos)
            \/ /\ r.ok
               /\ meta' = Some(r.meta)
               /\ pos' = r.pos
               /\ pc' = "current"
               /\ UNCHANGED <<buf, faulty, size, entry, start, current, end, hname, hs,
                              hdrs, lastMeta, children, ret, error>>
               /\ UNCHANGED callerVars

\* variant: a child with an unknown tag is skipped, not captured
ReadUserDefined_Skips ==
    /\ pc = "dispatch"
    /\ hname # META
    /\ pos' = (pos - HEADER_SIZE) + hs
    /\ pc' = "current"
    /\ UNCHANGED <<buf, faulty, size, entry, start, current, end, hname, hs,
                   hdrs, lastMeta, meta, children, ret, error>>
    /\ UNCHANGED callerVars

\* line 81-86: vec![0; (s - 8) as usize]; read_exact; children.push(..)
\* s - 8 on a u64 below 8 overflows: a panic in a checked build, and in an
\* unchecked build a wrapped length no allocation can satisfy.
ReadUserDefined ==
    /\ pc = "dispatch"
    /\ hname # META
    /\ \/ /\ hs < HEADER_SIZE
          /\ pc' = "panic"
          /\ UNCHANGED <<buf, pos, faulty, size, entry, start, current, end, hname, hs,
                         hdrs, lastMeta, meta, children, ret, error>>
          /\ UNCHANGED callerVars
       \/ hs >= HEADER_SIZE /\ faulty /\ Fail("Io", pos)
       \/ /\ hs >= HEADER_SIZE
          /\ pos + (hs - HEADER_SIZE) > Len(buf)
          /\ Fail("Io", Len(buf))
       \/ /\ hs >= HEADER_SIZE
          /\ pos + (hs - HEADER_SIZE) <= Len(buf)
          /\ children' = Append(children,
                 [name |-> BoxTypeToString(hname), size |-> hs,
                  data |-> SubSeq(buf, pos + 1, pos + (hs - HEADER_SIZE))])
          /\ pos' = pos + (hs - HEADER_SIZE)
          /\ pc' = "current"
          /\ UNCHANGED <<buf, faulty, size, entry, start, current, end, hname, hs,
                         hdrs, lastMeta, meta, ret, error>>
          /\ UNCHANGED callerVars

\* line 89: current = reader.stream_position()?
UpdateCurrent ==
    /\ pc = "current"
    /\ \/ faulty /\ Fail("Io", pos)
       \/ /\ current' = pos
          /\ pc' = "while"
          /\ UNCHANGED <<buf, pos, faulty, size, entry, start, end, hname, hs, hdrs, lastMeta,
                         meta, children, ret, error>>
          /\ UNCHANGED callerVars

\* variant: the container is returned without the final reposition
SkipAndReturn_NoSkip ==
    /\ pc = "skip"
    /\ \/ faulty /\ Fail("Io", pos)
       \/ /\ ret' = Some([meta |-> meta, children |-> children])
          /\ boxes' = Append(boxes, [meta |-> meta, children |-> children])
          /\ pc' = "done"
          /\ UNCHANGED <<buf, pos, faulty, size, entry, start, current, end, hname, hs,
                         hdrs, lastMeta, meta, children, error>>
          /\ UNCHANGED <<box, src, wret, chdr>>

\* line 92-94: skip_bytes_to(reader, start + size)?; Ok(UdtaBox { meta, children })
SkipAndReturn ==
    /\ pc = "skip"
    /\ \/ faulty /\ Fail("Io", pos)
       \/ /\ pos' = start + size
          /\ ret' = Some([meta |-> meta, children |-> children])
          /\ boxes' = Append(boxes, [meta |-> meta, children |-> children])
          /\ pc' = "done"
          /\ UNCHANGED <<buf, faulty, size, entry, start, current, end, hname, hs, hdrs, lastMeta,
                         meta, children, error>>
          /\ UNCHANGED <<box, src, wret, chdr>>

\* -------------------------------------------------------------- the caller
\* tests, lines 120-121: src_box.write_box(&mut buf) into a fresh Vec
WriteBox ==
    /\ pc = "write"
    /\ LET w == write_box(box) IN
         /\ buf' = w.bytes
         /\ wret' = w.ret
    /\ pos' = 0
    /\ pc' = "readhdr"
    /\ UNCHANGED <<faulty, size, entry, start, current, end, hname, hs, hdrs, lastMeta,
                   meta, children, ret, error, box, src, chdr, boxes>>

\* tests, lines 124-129: header = BoxHeader::read(&mut reader); read_box(.., header.size)
CallerReadHeader ==
    /\ pc = "readhdr"
    /\ pos + HEADER_SIZE <= Len(buf)
    /\ LET h == BoxHeaderRead(buf, pos) IN
         /\ chdr' = h
         /\ size' = h.size
    /\ pos' = pos + HEADER_SIZE
    /\ pc' = "start"
    /\ UNCHANGED <<buf, faulty, entry, start, current, end, hname, hs, hdrs, lastMeta,
                   meta, children, ret, error, box, src, wret, boxes>>

\* the container just read is written back out (read-modify-write cycle)
Rewrite ==
    /\ pc = "done"
    /\ Len(boxes) < MaxRounds
    /\ box' = ret[1]
    /\ faulty' = FALSE
    /\ pc' = "write"
    /\ UNCHANGED <<buf, pos, size, entry, start, current, end, hname, hs, hdrs, lastMeta,
                   meta, children, ret, error, src, wret, chdr, boxes>>

Next ==
    \/ BoxStart
    \/ InitCurrent
    \/ WhileTest
    \/ ReadChildHeader
    \/ CheckSize
    \/ ReadMeta
    \/ ReadUserDefined
    \/ UpdateCurrent
    \/ SkipAndReturn
    \/ WriteBox
    \/ CallerReadHeader
    \/ Rewrite

Spec == Init /\ [][Next]_vars

\* a sequential program takes its next step whenever it has one
FairSpec == Init /\ [][Next]_vars /\ WF_vars(Next)

Terminal == {"done", "err", "panic"}

TypeOK ==
    /\ pc \in {"start", "position", "while", "header", "check", "dispatch", "current",
               "skip", "done", "err", "panic", "write", "readhdr"}
    /\ Len(ret) <= 1
    /\ pos >= 0

\* ---------------------------------------------------------------- claims

\* the caller has read the header of the box it wrote first
FirstHeaderRead == pc \notin {"write", "readhdr"} \/ Len(boxes) > 0

\* C1: a container with no opaque children, its meta slot absent or holding
\* the default value, survives write_box followed by read_box: the header
\* read back has the udta tag and size box_size(), the read succeeds and
\* returns a container equal to the original.
RoundTripEmpty ==
    (/\ src # None
     /\ src[1].children = <<>>
     /\ src[1].meta \in {None, Some(MetaDefault)})
    => /\ pc \notin {"err", "panic"}
       /\ FirstHeaderRead => chdr = [name |-> UDTA, size |-> get_size(src[1])]
       /\ Len(boxes) >= 1 => boxes[1] = src[1]

RoundTripEmptyWitness ==
    /\ src = Some([meta |-> Some(MetaDefault), children |-> <<>>])
    /\ pc = "done"
    /\ Len(boxes) = 1
    /\ boxes[1] = src[1]
    /\ chdr.size = 2 * HEADER_SIZE

\* C2: the value write_box returns is the number of bytes appended to the
\* writer, the size field of the header written, and box_size(): 8 plus the
\* meta sub-box's size when present, 8 otherwise, whatever children holds.
SizeAccounting ==
    pc = "readhdr" =>
       /\ wret = Len(buf)
       /\ wret = U32Value(SubSeq(buf, 1, 4))
       /\ wret = get_size(box)
       /\ wret = HEADER_SIZE
                   + (IF box.meta = None THEN 0 ELSE HEADER_SIZE + Len(box.meta[1].payload))

SizeAccountingWitness ==
    /\ pc = "readhdr"
    /\ box.meta # None
    /\ Len(box.children) >= 2
    /\ wret = Len(buf)
    /\ wret > HEADER_SIZE

\* read_box is running and its locals belong to the current call
InReadBox == {"position", "while", "header", "check", "dispatch", "current", "skip", "done"}

\* C3: a child header whose declared size exceeds the container's declared
\* size makes read_box fail with InvalidData at once: the cursor has not moved
\* past the header, nothing was stored, no container is returned, and no child
\* above the container's declared size is ever stored in meta or children.
OversizeRejected ==
    [][ /\ (pc = "check" /\ hs > size) =>
              /\ pc' = "err"
              /\ error' = "InvalidData"
              /\ ret' = None
              /\ pos' = pos
              /\ meta' = meta
              /\ children' = children
        /\ (pc = "dispatch" /\ (meta' # meta \/ children' # children)) => hs <= size
        /\ pc' \in InReadBox =>
              \A i \in 1..Len(children') : children'[i].size <= size' ]_vars

OversizeRejectedWitness ==
    /\ pc = "err"
    /\ error = "InvalidData"
    /\ hs > size
    /\ Len(children) >= 1
    /\ ret = None

\* C4: when read_box returns Ok the cursor is at start + declared size, start
\* being the cursor at entry minus the header size.
CursorAtEnd ==
    pc = "done" => pos = (entry - HEADER_SIZE) + size

\* the last child carried the cursor past start + declared size
CursorAtEndWitness ==
    /\ pc = "done"
    /\ current > end
    /\ Len(children) >= 1
    /\ pos = (entry - HEADER_SIZE) + size

\* C5: every child header read_box accepts has declared size at least 8,
\* every stored UserDefinedBox has data of length size - 8, and a declared
\* size from 0 to 7 never makes the computation of size - 8 overflow.
DeclaredSizeAtLeast8 ==
    /\ pc # "panic"
    /\ pc = "dispatch" => hs >= HEADER_SIZE
    /\ \A i \in 1..Len(children) : Len(children[i].data) = children[i].size - HEADER_SIZE

\* C6: after a successful read, children holds one entry per child header with
\* a non-meta tag, in stream order, duplicates kept, each entry carrying the
\* tag, the declared size and the size - 8 bytes that follow the header.
UnknownTagCapture ==
    pc = "done" =>
       /\ Len(children) = Len(hdrs)
       /\ ret = Some([meta |-> meta, children |-> children])
       /\ \A i \in 1..Len(hdrs) :
            LET h == BoxHeaderRead(buf, hdrs[i]) IN
              /\ h.name # META
              /\ children[i].name = h.name
              /\ children[i].size = h.size
              /\ Len(children[i].data) + HEADER_SIZE = h.size
              /\ \A k \in 1..Len(children[i].data) :
                   children[i].data[k] = buf[hdrs[i] + HEADER_SIZE + k]
       /\ \A i, j \in 1..Len(hdrs) : i < j => hdrs[i] < hdrs[j]

UnknownTagCaptureWitness ==
    /\ pc = "done"
    /\ Len(children) = 2
    /\ children[1].name = children[2].name
    /\ children[1].data # <<>>
    /\ children[1].data # children[2].data

\* C7: write_box never emits an opaque child: its output and its return value
\* are the same for every children list put beside the same meta slot.
LossyWriteBack ==
    pc = "readhdr" =>
       \A ch \in ChildLists :
          write_box([meta |-> box.meta, children |-> ch]) = [bytes |-> buf, ret |-> wret]

\* a container read with an opaque child has been written back without it
LossyWriteBackWitness ==
    /\ pc = "readhdr"
    /\ src = None
    /\ box.children # <<>>
    /\ box.meta # None
    /\ Len(buf) = get_size([meta |-> box.meta, children |-> <<>>])

\* C8: once read_box has accepted an input (giving the first container), every
\* later write-then-read succeeds; the second container is the first one with
\* its children dropped, and the third equals the second.
Idempotence ==
    /\ Len(boxes) >= 1 => pc \notin {"err", "panic"}
    /\ Len(boxes) >= 2 => boxes[2] = [meta |-> boxes[1].meta, children |-> <<>>]
    /\ Len(boxes) >= 3 => boxes[3] = boxes[2]

IdempotenceWitness ==
    /\ src = None
    /\ Len(boxes) = 3
    /\ boxes[1].children # <<>>
    /\ boxes[1].meta # None
    /\ boxes[3] = boxes[2]

\* a step of read_box that cannot succeed in the current state
StepFails ==
    \/ pc = "header" /\ pos + HEADER_SIZE > Len(buf)
    \/ pc = "check" /\ hs > size
    \/ pc = "dispatch" /\ hname # META /\ hs >= HEADER_SIZE
                       /\ pos + (hs - HEADER_SIZE) > Len(buf)
    \/ pc = "dispatch" /\ hname = META /\ \A r \in MetaReadBox(buf, pos, hs) : ~r.ok

\* C9: a failing step makes read_box return its error at once, with no
\* container, and nothing happens afterwards: no further child is read and
\* the final reposition is not executed.
AllOrNothing ==
    [][ /\ StepFails => pc' = "err"
        /\ pc' = "err" =>
              /\ ret' = None
              /\ error' \in {"Io", "InvalidData", "Meta"}
              /\ boxes' = boxes
              /\ meta' = meta /\ children' = children /\ current' = current
        /\ pc # "err" ]_vars

AllOrNothingWitness ==
    /\ pc = "err"
    /\ error = "Io"
    /\ ~faulty
    /\ Len(children) >= 1
    /\ ret = None
    /\ boxes = <<>>

\* C10: read_box eventually returns a container or an error (or stops).
Terminates == <>(pc \in Terminal)

\* the value MetaBox::read_box decodes from the meta child whose header is at h
MetaValueAt(h) ==
    LET s == BoxHeaderRead(buf, h).size IN
      IF s < HEADER_SIZE THEN MetaDefault
      ELSE [payload |-> [k \in 1..(s - HEADER_SIZE) |-> buf[h + HEADER_SIZE + k]]]

\* C11: when the region holds several meta children the read succeeds like
\* any other, the meta slot holds the value decoded from the last meta child
\* in stream order, and no meta child appears in children.
LastMetaWins ==
    pc = "done" =>
       /\ lastMeta = -1 => meta = None
       /\ lastMeta >= 0 =>
            /\ BoxHeaderRead(buf, lastMeta).name = META
            /\ meta = Some(MetaValueAt(lastMeta))
       /\ ret = Some([meta |-> meta, children |-> children])
       /\ Len(children) = Len(hdrs)
       /\ \A i \in 1..Len(children) : children[i].name # BoxTypeToString(META)

\* two meta children with different content were read; the second one is kept
LastMetaWinsWitness ==
    /\ pc = "done"
    /\ error = ""
    /\ lastMeta > entry
    /\ BoxHeaderRead(buf, entry).name = META
    /\ MetaValueAt(entry) # MetaValueAt(lastMeta)
    /\ meta = Some(MetaValueAt(lastMeta))
    /\ children = <<>>

\* C12: the structural-violation error is raised exactly when the child's
\* declared size is strictly greater than the container's declared size; a
\* child whose declared size equals it, or fits it but overruns the bytes left
\* before start + declared size, passes the check and is dispatched.
BoundCheckThreshold ==
    [][ /\ pc = "check" =>
              /\ (hs > size) <=> (pc' = "err" /\ error' = "InvalidData")
              /\ (hs <= size) <=> (pc' = "dispatch")
        /\ (pc' = "err" /\ error' = "InvalidData") => (pc = "check" /\ hs > size) ]_vars

\* a child declaring exactly the container's size, more than the bytes left
BoundCheckThresholdWitness ==
    /\ pc = "dispatch"
    /\ hs = size
    /\ (pos - HEADER_SIZE) + hs > end
    /\ error = ""

\* C13: a child header is read only while the cursor is strictly below
\* start + declared size; with a declared size of 8 or less read_box reads
\* nothing, returns a container with meta absent and children empty, and
\* leaves the cursor at start + declared size.
ScanningGuard ==
    /\ pc = "header" => pos < (entry - HEADER_SIZE) + size
    /\ (pc \in InReadBox /\ size <= HEADER_SIZE) =>
          /\ pc \in {"position", "while", "skip", "done"}
          /\ pc # "done" => pos = entry
          /\ hdrs = <<>> /\ lastMeta = -1
          /\ meta = None /\ children = <<>>
    /\ (pc = "done" /\ size <= HEADER_SIZE) =>
          /\ ret = Some(EmptyBox)
          /\ pos = (entry - HEADER_SIZE) + size

\* declared size below 8: the cursor ends before its position at entry, the
\* child bytes that follow the header untouched
ScanningGuardWitness ==
    /\ pc = "done"
    /\ size < HEADER_SIZE
    /\ pos < entry
    /\ Len(buf) >= entry + HEADER_SIZE
    /\ ret = Some(EmptyBox)

====
